---- MODULE Spec2Model ----
(***************************************************************************)
(* Model of lib/Conversion/TritonGPUToLLVM/TritonGPUToLLVMPass.cpp:        *)
(* the ConvertTritonGPUToLLVM pass (runOnOperation) and the rewrite        *)
(* patterns it owns (FuncOpConversion, CallOpConversion,                   *)
(* ReturnOpConversion, decomposeInsertSliceAsyncOp, initSharedMemory).     *)
(*                                                                         *)
(* The module under compilation is a list of operations in walk order      *)
(* (body), a table of functions (funcs) and a list of globals.  A value    *)
(* is a tuple <<tag, function, op id, result index>>.                      *)
(***************************************************************************)
EXTENDS Integers, Sequences, FiniteSets, TLC

VARIABLES
  target,             \* pass option: Target::NVVM / ROCDL / GENX
  computeCapability,  \* pass option
  modAttrs,           \* module attributes (num-warps, num-ctas, ...)
  funcs,              \* function name -> function operation
  body,               \* operations of the module, in walk order
  globals,            \* LLVM::GlobalOp's of the module
  pc,                 \* position of runOnOperation
  numWarps,           \* local of runOnOperation (effective warp count)
  decomposed,         \* local of decomposeInsertSliceAsyncOp
  passFailed,         \* signalPassFailure() was called
  tried,              \* ops whose pattern reported a match failure
  saved,              \* rewrites of the running conversion can be undone
  nextId,             \* fresh operation ids
  stages,             \* the steps of runOnOperation executed so far
  input,              \* the module as it was handed to the pass
  tmaMetadata,        \* the pass member: the table the rules write to
  tmaMetaDataDebug,   \* TRUE while the local table of runOnOperation lives
  run                 \* the number of the current run of the pass instance

vars == <<target, computeCapability, modAttrs, funcs, body, globals, pc,
          numWarps, decomposed, passFailed, tried, saved, nextId, stages,
          input, tmaMetadata, tmaMetaDataDebug, run>>

\* ---------------------------------------------------------------- bounds
MaxParams == 2
MaxResults == 2
MaxWarps == 2
MaxWarpGroups == 2
MaxWaitNum == 2
MaxRuns == 2

\* ------------------------------------------------------------- utilities
Min(a, b) == IF a < b THEN a ELSE b
Max(a, b) == IF a > b THEN a ELSE b
Range(s) == {s[i] : i \in 1..Len(s)}
InsertBefore(s, i, new) == SubSeq(s, 1, i - 1) \o new \o SubSeq(s, i, Len(s))
ReplaceAt(s, i, new) == SubSeq(s, 1, i - 1) \o new \o SubSeq(s, i + 1, Len(s))
First(S) == CHOOSE i \in S : \A j \in S : i <= j

Targets == {"NVVM", "ROCDL", "GENX"}
FuncNames == {"kernel", "f", "g"}

\* values
Res(id, k) == <<"res", "", id, k>>
Arg(f, k) == <<"arg", f, 0, k>>
Sym(f, k) == <<"v", f, 0, k>>
NoVal == <<"none", "", 0, 0>>

\* attribute lists: sets of <<name, value>>, a value being a list of ints
HasAttr(attrs, name) == \E a \in attrs : a[1] = name
GetAttr(attrs, name) == (CHOOSE a \in attrs : a[1] = name)[2]
SetAttr(attrs, name, v) == {a \in attrs : a[1] # name} \cup {<<name, v>>}

\* Value::getDefiningOp
HasDefiningOp(b, id) == \E k \in 1..Len(b) : b[k].id = id
DefiningOp(b, id) == b[CHOOSE k \in 1..Len(b) : b[k].id = id]

\* ------------------------------------------------------------ operations
NoAux == [index |-> 0, axis |-> 0, mask |-> "none", other |-> FALSE,
          elemBits |-> 0, ptrContig |-> 0, maskAlign |-> 0, outVec |-> 0,
          offsets |-> <<>>, sizes |-> <<>>, strides |-> <<>>]

MkOp(id, kind, dialect, func, operands, nres) ==
  [id |-> id, kind |-> kind, dialect |-> dialect, func |-> func,
   operands |-> operands, nres |-> nres, num |-> 0, attrs |-> {},
   lowerable |-> TRUE, callee |-> "", aux |-> NoAux]

\* types of the i-th parameter / result of an input function
ParamTy(i) == IF i % 2 = 1 THEN <<"!tt.ptr">> ELSE <<"i32">>
ResultTy(i) == IF i % 2 = 1 THEN <<"i32">> ELSE <<"tensor">>
ParamTys(n) == [i \in 1..n |-> ParamTy(i)]
ResultTys(n) == [i \in 1..n |-> ResultTy(i)]
Syms(f, base, n) == [i \in 1..n |-> Sym(f, base + i - 1)]
Results(id, n) == [i \in 1..n |-> Res(id, i - 1)]

\* shape of the destination tile of the async copy; the source tile has the
\* destination's shape without the insertion axis
DstShape == <<2, 3>>
MaskKinds == {"none", "alt", "allfalse"}
ComputeCapabilities == {70, 80}
ThreadsPerWarp == {16, 32, 64}
ExtraKinds == {"none", "index", "unconvertible"}

\* ------------------------------------------------------- the input module
DefaultInput ==
  [tgt |-> "NVVM", cc |-> 80, nw |-> 1, tpw |-> 32, wg |-> 0, ctas |-> 1,
   pk |-> 1, pf |-> 1, nf |-> 1, ng |-> 2, kr |-> 0,
   allocK |-> TRUE, allocF |-> FALSE, hasCid |-> FALSE, extra |-> "none",
   hasAsync |-> FALSE, axis |-> 0, index |-> 0, mask |-> "none",
   other |-> FALSE, elemBits |-> 32, ptrContig |-> 1, maskAlign |-> 1,
   outVec |-> 1, wait1 |-> 1, wait2 |-> 1, ws |-> FALSE, tma |-> FALSE]

WSAttrs(p) ==
  IF p.ws THEN {<<"async_agent", <<1>>>>, <<"agent.mutex_role", <<0>>>>,
                <<"other.attr", <<7>>>>}
  ELSE {}

InputFuncs(p) ==
  [n \in FuncNames |->
     [kind |-> "tt.func", dialect |-> "tt", isKernel |-> (n = "kernel"),
      inputs |-> ParamTys(IF n = "kernel" THEN p.pk
                          ELSE IF n = "f" THEN p.pf ELSE 1),
      results |-> ResultTys(IF n = "kernel" THEN p.kr
                            ELSE IF n = "f" THEN p.nf ELSE p.ng),
      attrs |-> IF (n = "kernel" /\ p.allocK) \/ (n = "f" /\ p.allocF)
                THEN {<<"allocation.offset", <<0>>>>} ELSE {},
      argAttrs |-> [i \in 1..(IF n = "kernel" THEN p.pk
                               ELSE IF n = "f" THEN p.pf ELSE 1) |-> {}],
      passthrough |-> {}, matchFailed |-> FALSE]]

InputBody(p) ==
  (IF p.tma
   THEN << MkOp(16, "tt.splat", "tt", "kernel", <<Sym("kernel", 60)>>, 1),
           MkOp(17, "triton_nvidia_gpu.insert_slice_tma",
                "triton_nvidia_gpu", "kernel",
                <<Sym("kernel", 61), Sym("kernel", 62), Res(16, 0)>>, 1) >>
   ELSE <<>>)
  \o
  (IF p.hasCid
   THEN << [MkOp(1, "nvgpu.cluster_id", "nvgpu", "kernel", <<>>, 1)
              EXCEPT !.lowerable = FALSE],
           MkOp(2, "tt.op", "tt", "kernel", <<Res(1, 0)>>, 1) >>
   ELSE <<>>)
  \o
  (IF p.hasAsync
   THEN << [MkOp(3, "triton_gpu.insert_slice_async", "triton_gpu", "kernel",
                 <<Sym("kernel", 50), Sym("kernel", 51)>>, 1)
              EXCEPT !.attrs = WSAttrs(p),
                     !.aux = [NoAux EXCEPT !.index = p.index,
                                !.axis = p.axis, !.mask = p.mask,
                                !.other = p.other, !.elemBits = p.elemBits,
                                !.ptrContig = p.ptrContig,
                                !.maskAlign = p.maskAlign,
                                !.outVec = p.outVec]],
           MkOp(4, "tt.op", "tt", "kernel", <<Res(3, 0)>>, 1),
           MkOp(5, "triton_gpu.async_commit_group", "triton_gpu", "kernel",
                <<>>, 0) >>
   ELSE <<>>)
  \o
  << [MkOp(6, "triton_gpu.async_wait", "triton_gpu", "kernel", <<>>, 0)
        EXCEPT !.num = p.wait1, !.attrs = WSAttrs(p)] >>
  \o
  (IF p.extra = "index"
   THEN << [MkOp(7, "index.op", "index", "kernel", <<>>, 1)
              EXCEPT !.lowerable = FALSE] >>
   ELSE IF p.extra = "unconvertible"
   THEN << [MkOp(7, "tt.op", "tt", "kernel", <<>>, 1)
              EXCEPT !.lowerable = FALSE] >>
   ELSE <<>>)
  \o
  << [MkOp(8, "tt.call", "tt", "kernel", Syms("kernel", 0, p.pf), p.nf)
        EXCEPT !.callee = "f", !.lowerable = FALSE],
     MkOp(9, "tt.op", "tt", "kernel", Results(8, p.nf), 0),
     [MkOp(10, "tt.return", "tt", "kernel", Syms("kernel", 100, p.kr), 0)
        EXCEPT !.lowerable = FALSE],
     [MkOp(11, "triton_gpu.async_wait", "triton_gpu", "f", <<>>, 0)
        EXCEPT !.num = p.wait2],
     [MkOp(12, "tt.call", "tt", "f", Syms("f", 0, 1), p.ng)
        EXCEPT !.callee = "g", !.lowerable = FALSE],
     MkOp(13, "tt.op", "tt", "f", Results(12, p.ng), 0),
     [MkOp(14, "tt.return", "tt", "f", Syms("f", 100, p.nf), 0)
        EXCEPT !.lowerable = FALSE],
     [MkOp(15, "tt.return", "tt", "g", Syms("g", 100, p.ng), 0)
        EXCEPT !.lowerable = FALSE] >>

RECURSIVE MaxOpId(_)
MaxOpId(b) ==
  IF b = <<>> THEN 0 ELSE Max(Head(b).id, MaxOpId(Tail(b)))

\* calling-convention inputs
ConventionInputs ==
  {[DefaultInput EXCEPT !.tgt = t, !.kr = kr, !.nf = nf, !.ng = ng,
                        !.pk = pk, !.pf = pf, !.allocK = ak, !.allocF = af] :
     t \in Targets, kr \in 0..1, nf \in 0..MaxResults, ng \in 0..MaxResults,
     pk \in 0..MaxParams, pf \in 0..MaxParams, ak \in BOOLEAN,
     af \in BOOLEAN}

\* inputs of the main legalization and of the cluster-id folding
LegalizationInputs ==
  {[DefaultInput EXCEPT !.tgt = t, !.ctas = c, !.hasCid = h, !.extra = e,
                        !.kr = kr] :
     t \in Targets, c \in 1..2, h \in BOOLEAN, e \in ExtraKinds,
     kr \in 0..1}

\* module attributes
AttributeInputs ==
  {[DefaultInput EXCEPT !.tgt = t, !.nw = nw, !.tpw = tpw, !.wg = wg] :
     t \in Targets, nw \in 1..MaxWarps, tpw \in ThreadsPerWarp,
     wg \in 0..MaxWarpGroups}

\* async copies: vector widths, capability levels and wait markers
AsyncWidthInputs ==
  {[DefaultInput EXCEPT !.tgt = t, !.cc = cc, !.hasAsync = h,
                        !.elemBits = eb, !.ptrContig = pcg, !.outVec = ov,
                        !.maskAlign = ma, !.mask = m, !.wait1 = w1,
                        !.wait2 = w2, !.ws = h] :
     t \in Targets, cc \in ComputeCapabilities, h \in BOOLEAN,
     eb \in {8, 32}, pcg \in {1, 4}, ov \in {1, 4}, ma \in {1, 2},
     m \in {"none", "alt"}, w1 \in 0..MaxWaitNum, w2 \in {0, MaxWaitNum}}

\* async copies: tiles, masks and fill values
AsyncTileInputs ==
  {[DefaultInput EXCEPT !.tgt = "GENX", !.cc = cc, !.hasAsync = TRUE,
                        !.elemBits = eb, !.axis = ax, !.index = ix,
                        !.mask = m, !.other = o, !.ws = w] :
     cc \in ComputeCapabilities, eb \in {8, 32}, ax \in 0..1,
     ix \in 0..2, m \in MaskKinds, o \in BOOLEAN, w \in BOOLEAN}

\* tensor-memory copies with a splat mask
TMAInputs ==
  {[DefaultInput EXCEPT !.tgt = t, !.tma = TRUE, !.ctas = c, !.kr = kr] :
     t \in Targets, c \in 1..2, kr \in 0..1}

\* the values of the member tmaMetadata (lines 539-540): null, the table
\* the creator of the pass supplied, or the address of the local table
\* of run r
nullptr == <<"nullptr", 0>>
ExternalTable == <<"external", 0>>
LocalTable(r) == <<"local", r>>

Inputs ==
  ConventionInputs \cup LegalizationInputs \cup AttributeInputs
    \cup TMAInputs
    \cup AsyncWidthInputs
    \cup {p \in AsyncTileInputs : p.index < DstShape[p.axis + 1]}

Init ==
  \E p \in Inputs :
    /\ target = p.tgt
    /\ computeCapability = p.cc
    /\ modAttrs = [numWarps |-> p.nw, numCTAs |-> p.ctas,
                   threadsPerWarp |-> p.tpw, numWarpGroups |-> p.wg]
    /\ funcs = InputFuncs(p)
    /\ body = InputBody(p)
    /\ globals = <<>>
    /\ pc = "start"
    /\ numWarps = 0
    /\ decomposed = FALSE
    /\ passFailed = FALSE
    /\ tried = {}
    /\ saved = <<>>
    /\ stages = <<>>
    /\ nextId = MaxOpId(InputBody(p)) + 1
    /\ input = [funcs |-> InputFuncs(p), body |-> InputBody(p)]
    /\ tmaMetadata \in (IF p.tma THEN {nullptr, ExternalTable}
                                 ELSE {nullptr})
    /\ tmaMetaDataDebug = FALSE
    /\ run = 1

\* ------------------------------------------------- runOnOperation, start
StatementOrderMembarFirst ==
  <<"start", "decompose", "membar", "allocation", "tensorPtrMap", "cleanup",
    "funcs", "initSharedMemory", "callret", "populate", "legalize", "fold",
    "done">>

\* the order of the statements of runOnOperation
StatementOrder ==
  <<"start", "decompose", "allocation", "membar", "tensorPtrMap", "cleanup",
    "funcs", "initSharedMemory", "callret", "populate", "legalize", "fold",
    "done">>

\* the statement that follows the given one
NextStatement(s) ==
  StatementOrder[(CHOOSE i \in 1..Len(StatementOrder) :
                    StatementOrder[i] = s) + 1]

\* int numWarps = getNumWarps(mod); if the module carries
\* "triton_gpu.num-warp-groups-per-cta", numWarps *= that attribute.
\* numWarpGroups = 0 stands for an absent attribute.
EffectiveNumWarps(attrs) ==
  IF attrs.numWarpGroups # 0 THEN attrs.numWarps * attrs.numWarpGroups
  ELSE attrs.numWarps

ReadModuleAttrs ==
  /\ pc = "start"
  /\ numWarps' = EffectiveNumWarps(modAttrs)
  /\ pc' = NextStatement("start")
  /\ stages' = Append(stages, "attrs")
  /\ UNCHANGED <<target, computeCapability, modAttrs, funcs, body, globals,
                 decomposed, passFailed, tried, saved, nextId, input, tmaMetadata,
                 tmaMetaDataDebug, run>>

\* ------------------------------------------- decomposeInsertSliceAsyncOp
WSNamesOnlyAgent == {"async_agent"}

\* the attribute names addWSNamedAttrs copies (line 47)
WSNames == {"async_agent", "agent.mutex_role"}

\* addWSNamedAttrs(op, attrs): sets the two warp-specialization attributes
addWSNamedAttrs(op, attrs) ==
  [op EXCEPT !.attrs = {a \in op.attrs : \A b \in attrs :
                           b[1] \in WSNames => a[1] # b[1]}
                       \cup {b \in attrs : b[1] \in WSNames}]

\* InsertSliceAsyncOp::getEligibleLoadByteWidth(computeCapability)
getEligibleLoadByteWidth(cc) == IF cc >= 80 THEN {4, 8, 16} ELSE {}

\* AsyncCommitGroupOp::isSupported / AsyncWaitOp::isSupported
isSupported(cc) == cc >= 80

ByteWidthPlainMin(aux) ==
  LET inVec0 == aux.ptrContig
      inVec == IF aux.mask # "none" THEN Min(aux.maskAlign, inVec0)
               ELSE inVec0
      minVec == Min(aux.outVec, inVec)
      bitWidth == Min(128, aux.elemBits * minVec)
  IN bitWidth \div 8

\* lines 613-625
ByteWidth(aux) ==
  LET inVec0 == aux.ptrContig
      inVec == IF aux.mask # "none" THEN Min(aux.maskAlign, inVec0)
               ELSE inVec0
      outVec == aux.outVec
      minVec == IF outVec > 1 THEN Min(outVec, inVec) ELSE inVec
      maxBitWidth == Max(128, aux.elemBits)
      vecBitWidth == aux.elemBits * minVec
      bitWidth == Min(maxBitWidth, vecBitWidth)
  IN bitWidth \div 8

ShouldDecompose(op, cc) ==
  ~(ByteWidth(op.aux) \in getEligibleLoadByteWidth(cc))

SliceOffsetsZero(aux) == [i \in 1..Len(DstShape) |-> 0]

\* offsets / sizes / strides of the tensor.insert_slice (lines 648-657)
SliceOffsets(aux) ==
  [i \in 1..Len(DstShape) |-> IF i - 1 = aux.axis THEN aux.index ELSE 0]
SliceSizes(aux) ==
  [i \in 1..Len(DstShape) |-> IF i - 1 # aux.axis THEN DstShape[i] ELSE 1]
SliceStrides(aux) == [i \in 1..Len(DstShape) |-> 1]

\* the triton::LoadOp created in place of the async copy (lines 636-645)
DecomposedLoad(op, id) ==
  addWSNamedAttrs(
    [MkOp(id, "tt.load", "tt", op.func, <<op.operands[1]>>, 1)
       EXCEPT !.aux = [NoAux EXCEPT !.mask = op.aux.mask,
                                    !.other = op.aux.other,
                                    !.elemBits = op.aux.elemBits]],
    op.attrs)

\* the tensor::InsertSliceOp created after it (lines 648-661)
DecomposedInsertSlice(op, loadId, id) ==
  addWSNamedAttrs(
    [MkOp(id, "tensor.insert_slice", "tensor", op.func,
          <<Res(loadId, 0), op.operands[2]>>, 1)
       EXCEPT !.aux = [NoAux EXCEPT !.offsets = SliceOffsets(op.aux),
                                    !.sizes = SliceSizes(op.aux),
                                    !.strides = SliceStrides(op.aux)]],
    op.attrs)

\* Value::replaceAllUsesWith over the whole module
ReplaceUses(b, old, new) ==
  [i \in 1..Len(b) |->
     [b[i] EXCEPT !.operands =
        [k \in 1..Len(b[i].operands) |->
           IF b[i].operands[k] = old THEN new ELSE b[i].operands[k]]]]

\* mod.walk over InsertSliceAsyncOp (lines 599-667); i is the walk position
RECURSIVE WalkInsertSliceAsync(_, _, _, _, _)
WalkInsertSliceAsync(b, i, nid, dec, cc) ==
  IF i > Len(b) THEN [body |-> b, nextId |-> nid, decomposed |-> dec]
  ELSE IF b[i].kind = "triton_gpu.insert_slice_async"
          /\ ShouldDecompose(b[i], cc)
  THEN LET op == b[i]
           new == << DecomposedLoad(op, nid),
                     DecomposedInsertSlice(op, nid, nid + 1) >>
           b1 == ReplaceUses(ReplaceAt(b, i, new), Res(op.id, 0),
                             Res(nid + 1, 0))
       IN WalkInsertSliceAsync(b1, i + 2, nid + 2, TRUE, cc)
  ELSE WalkInsertSliceAsync(b, i + 1, nid, dec, cc)

WalkAsyncCommitGroupKeep(b, cc) == b

\* mod.walk over AsyncCommitGroupOp (lines 669-672)
WalkAsyncCommitGroup(b, cc) ==
  IF ~isSupported(cc)
  THEN SelectSeq(b, LAMBDA op : op.kind # "triton_gpu.async_commit_group")
  ELSE b

NewWaitOpSameNum(asyncWaitOp, id) ==
  addWSNamedAttrs(
    [MkOp(id, "triton_gpu.async_wait", "triton_gpu", asyncWaitOp.func,
          <<>>, 0) EXCEPT !.num = asyncWaitOp.num],
    asyncWaitOp.attrs)

\* "Wait for all previous async ops" (lines 680-683)
NewWaitOp(asyncWaitOp, id) ==
  addWSNamedAttrs(
    [MkOp(id, "triton_gpu.async_wait", "triton_gpu", asyncWaitOp.func,
          <<>>, 0) EXCEPT !.num = 0],
    asyncWaitOp.attrs)

\* mod.walk over AsyncWaitOp (lines 674-686)
RECURSIVE WalkAsyncWait(_, _, _, _, _)
WalkAsyncWait(b, i, nid, dec, cc) ==
  IF i > Len(b) THEN [body |-> b, nextId |-> nid]
  ELSE IF b[i].kind = "triton_gpu.async_wait"
  THEN IF ~isSupported(cc)
       THEN WalkAsyncWait(ReplaceAt(b, i, <<>>), i, nid, dec, cc)
       ELSE IF dec
       THEN WalkAsyncWait(ReplaceAt(b, i, <<NewWaitOp(b[i], nid)>>), i + 1,
                          nid + 1, dec, cc)
       ELSE WalkAsyncWait(b, i + 1, nid, dec, cc)
  ELSE WalkAsyncWait(b, i + 1, nid, dec, cc)

\* if (target != triton::Target::GENX) return;
DecomposeNotGENX ==
  /\ pc = "decompose"
  /\ target # "GENX"
  /\ pc' = NextStatement("decompose")
  /\ stages' = Append(stages, "decompose")
  /\ UNCHANGED <<target, computeCapability, modAttrs, funcs, body, globals,
                 numWarps, decomposed, passFailed, tried, saved, nextId,
                 input, tmaMetadata,
                 tmaMetaDataDebug, run>>

DecomposeInsertSliceAsync ==
  /\ pc = "decompose"
  /\ target = "GENX"
  /\ LET r == WalkInsertSliceAsync(body, 1, nextId, FALSE,
                                   computeCapability)
     IN /\ body' = r.body
        /\ nextId' = r.nextId
        /\ decomposed' = r.decomposed
  /\ pc' = "decompose.commit"
  /\ stages' = Append(stages, "decompose")
  /\ UNCHANGED <<target, computeCapability, modAttrs, funcs, globals,
                 numWarps, passFailed, tried, saved, input, tmaMetadata,
                 tmaMetaDataDebug, run>>

DecomposeAsyncCommitGroup ==
  /\ pc = "decompose.commit"
  /\ body' = WalkAsyncCommitGroup(body, computeCapability)
  /\ pc' = "decompose.wait"
  /\ UNCHANGED stages
  /\ UNCHANGED <<target, computeCapability, modAttrs, funcs, globals,
                 numWarps, decomposed, passFailed, tried, saved, nextId,
                 input, tmaMetadata,
                 tmaMetaDataDebug, run>>

DecomposeAsyncWait ==
  /\ pc = "decompose.wait"
  /\ LET r == WalkAsyncWait(body, 1, nextId, decomposed, computeCapability)
     IN /\ body' = r.body
        /\ nextId' = r.nextId
  /\ pc' = NextStatement("decompose")
  /\ UNCHANGED stages
  /\ UNCHANGED <<target, computeCapability, modAttrs, funcs, globals,
                 numWarps, decomposed, passFailed, tried, saved, input, tmaMetadata,
                 tmaMetaDataDebug, run>>

\* ------------------------------ allocation, barriers, tensor-pointer map
\* ModuleAllocation allocation(mod);
Allocation ==
  /\ pc = "allocation"
  /\ pc' = NextStatement("allocation")
  /\ stages' = Append(stages, "allocation")
  /\ UNCHANGED <<target, computeCapability, modAttrs, funcs, body, globals,
                 numWarps, decomposed, passFailed, tried, saved, nextId,
                 input, tmaMetadata,
                 tmaMetaDataDebug, run>>

\* ModuleMembarAnalysis membarPass(&allocation); membarPass.run();
Membar ==
  /\ pc = "membar"
  /\ pc' = NextStatement("membar")
  /\ stages' = Append(stages, "membar")
  /\ UNCHANGED <<target, computeCapability, modAttrs, funcs, body, globals,
                 numWarps, decomposed, passFailed, tried, saved, nextId,
                 input, tmaMetadata,
                 tmaMetaDataDebug, run>>

\* the two walks that fill tensorPtrMap (lines 386-406)
TensorPtrMapScan ==
  /\ pc = "tensorPtrMap"
  /\ pc' = NextStatement("tensorPtrMap")
  /\ stages' = Append(stages, "tensorPtrMap")
  /\ UNCHANGED <<target, computeCapability, modAttrs, funcs, body, globals,
                 numWarps, decomposed, passFailed, tried, saved, nextId,
                 input, tmaMetadata,
                 tmaMetaDataDebug, run>>

\* FoldSplatMaskInInsertAsync::matchAndRewrite on one operation: a mask
\* defined by a splat is replaced by the splat's operand (lines 77-90)
FoldSplatMaskMatches(b, op) ==
  /\ op.kind = "triton_nvidia_gpu.insert_slice_tma"
  /\ Len(op.operands) >= 3
  /\ op.operands[3][1] = "res"
  /\ HasDefiningOp(b, op.operands[3][3])
  /\ DefiningOp(b, op.operands[3][3]).kind = "tt.splat"

FoldSplatMaskInInsertAsync(b, op) ==
  IF FoldSplatMaskMatches(b, op)
  THEN [op EXCEPT !.operands[3] =
          DefiningOp(b, op.operands[3][3]).operands[1]]
  ELSE op

\* applyOpPatternsAndFold(insertSlices, patterns): the pattern applied to
\* the InsertSliceTMAOp's of the module
ApplyCleanup(b) == [i \in 1..Len(b) |-> FoldSplatMaskInInsertAsync(b, b[i])]

\* "Hack: cleanup" (lines 408-418), the driver converges
Cleanup ==
  /\ pc = "cleanup"
  /\ body' = ApplyCleanup(body)
  /\ pc' = NextStatement("cleanup")
  /\ stages' = Append(stages, "cleanup")
  /\ saved' = [funcs |-> funcs, body |-> ApplyCleanup(body)]
  /\ UNCHANGED <<target, computeCapability, modAttrs, funcs, globals,
                 numWarps, decomposed, passFailed, tried, nextId, input, tmaMetadata,
                 tmaMetaDataDebug, run>>

\* "Hack: cleanup" (lines 416-417): applyOpPatternsAndFold reports failure
\* and signalPassFailure() is called; the function does not return
CleanupFailed ==
  /\ pc = "cleanup"
  /\ \E i \in 1..Len(body) : FoldSplatMaskMatches(body, body[i])
  /\ body' = ApplyCleanup(body)
  /\ passFailed' = TRUE
  /\ pc' = NextStatement("cleanup")
  /\ stages' = Append(stages, "cleanup")
  /\ saved' = [funcs |-> funcs, body |-> ApplyCleanup(body)]
  /\ UNCHANGED <<target, computeCapability, modAttrs, funcs, globals,
                 numWarps, decomposed, tried, nextId, input, tmaMetadata,
                 tmaMetaDataDebug, run>>

\* --------------------------------------------------------- type converter
\* TritonGPUToLLVMTypeConverter::convertType; <<>> is the null type
convertType(t) ==
  IF t = <<"i32">> THEN <<"i32">>
  ELSE IF t = <<"i8">> THEN <<"i8">>
  ELSE IF t = <<"!tt.ptr">> THEN <<"!llvm.ptr<1>">>
  ELSE IF t = <<"tensor">> THEN <<"!llvm.struct<tensor>">>
  ELSE IF t = <<"!llvm.ptr<3>">> THEN <<"!llvm.ptr<3>">>
  ELSE <<>>

RECURSIVE Flatten(_)
Flatten(ts) == IF ts = <<>> THEN <<>> ELSE Head(ts) \o Flatten(Tail(ts))

\* LLVMTypeConverter::packFunctionResults: one result is converted, several
\* are packed into a struct; <<>> is the null type
packFunctionResults(ts) ==
  IF \E i \in 1..Len(ts) : convertType(ts[i]) = <<>> THEN <<>>
  ELSE IF Len(ts) = 1 THEN convertType(ts[1])
  ELSE <<"!llvm.struct">> \o Flatten([i \in 1..Len(ts) |-> convertType(ts[i])])

\* ---------------------------------------------------------- FuncOpConversion
SharedPtrTy == <<"!llvm.ptr<3>">>

amendFuncOpPrepend(funcOp) ==
  [funcOp EXCEPT !.inputs = <<SharedPtrTy>> \o funcOp.inputs,
                 !.argAttrs = <<{}>> \o funcOp.argAttrs]

\* FuncOpConversion::amendFuncOp
amendFuncOp(funcOp) ==
  [funcOp EXCEPT !.inputs = Append(funcOp.inputs, SharedPtrTy),
                 !.argAttrs = Append(funcOp.argAttrs, {})]

\* FuncOpConversionBase::convertFuncOpToLLVMFuncOp; "null" when the
\* signature cannot be converted
convertFuncOpToLLVMFuncOp(funcOp) ==
  IF \/ \E i \in 1..Len(funcOp.inputs) : convertType(funcOp.inputs[i]) = <<>>
     \/ (funcOp.results # <<>> /\ packFunctionResults(funcOp.results) = <<>>)
  THEN [funcOp EXCEPT !.kind = "null"]
  ELSE [funcOp EXCEPT
          !.kind = "llvm.func", !.dialect = "llvm",
          !.inputs = [i \in 1..Len(funcOp.inputs) |->
                        convertType(funcOp.inputs[i])],
          !.results = IF funcOp.results = <<>> THEN <<>>
                      ELSE <<packFunctionResults(funcOp.results)>>]

\* the "threads per warp" the NVVM / ROCDL branch multiplies by (line 199)
NVVMThreadsPerWarp == 32

\* the target switch of FuncOpConversion::matchAndRewrite (lines 188-215)
TargetFuncAttrs(attrs, isKernel, tgt, nWarps, threadsPerWarp) ==
  IF tgt \in {"NVVM", "ROCDL"}
  THEN SetAttr(IF isKernel THEN SetAttr(attrs, "nvvm.kernel", <<1>>)
               ELSE attrs,
               "nvvm.maxntid", <<NVVMThreadsPerWarp * nWarps>>)
  ELSE SetAttr(
         SetAttr(IF isKernel THEN SetAttr(attrs, "genx.kernel", <<1>>)
                 ELSE attrs,
                 "genx.max_work_group_size",
                 <<threadsPerWarp * nWarps, 1, 1>>),
         "genx.reqd_sub_group_size", <<threadsPerWarp>>)

\* FuncOpConversion::matchAndRewrite
FuncOpMatchAndRewrite(funcOp, tgt, nWarps, threadsPerWarp) ==
  LET amendedFuncOp == IF ~funcOp.isKernel THEN amendFuncOp(funcOp)
                       ELSE funcOp
      newFuncOp == convertFuncOpToLLVMFuncOp(amendedFuncOp)
  IN IF newFuncOp.kind = "null"
     THEN [funcOp EXCEPT !.matchFailed = TRUE]
     ELSE [newFuncOp EXCEPT
             !.attrs = TargetFuncAttrs(newFuncOp.attrs, funcOp.isKernel,
                                       tgt, nWarps, threadsPerWarp),
             !.passthrough = IF ~funcOp.isKernel THEN {"noinline"}
                             ELSE newFuncOp.passthrough]

\* the function the conversion driver visits next
PendingFuncs == {n \in FuncNames : funcs[n].kind = "tt.func"
                                     /\ ~funcs[n].matchFailed}

\* the functions of the module in walk order
FuncOrder == <<"kernel", "f", "g">>

FuncOpConversion(n) ==
  /\ pc = "funcs"
  /\ n \in PendingFuncs
  /\ n = FuncOrder[First({i \in 1..Len(FuncOrder) :
                           FuncOrder[i] \in PendingFuncs})]
  /\ funcs' = [funcs EXCEPT ![n] =
                 FuncOpMatchAndRewrite(funcs[n], target, numWarps,
                                       modAttrs.threadsPerWarp)]
  /\ stages' = IF PendingFuncs = FuncNames THEN Append(stages, "funcs")
               ELSE stages
  /\ UNCHANGED <<target, computeCapability, modAttrs, body, globals, pc,
                 numWarps, decomposed, passFailed, tried, saved, nextId,
                 input, tmaMetadata,
                 tmaMetaDataDebug, run>>

\* TritonLLVMFunctionConversionTarget: legal dialects; no dialect is marked
\* illegal, so a partial conversion leaves what no pattern converts
FunctionTargetLegal(tgt) ==
  {"index", "llvm", "builtin.unrealized_conversion_cast"}
    \cup (IF tgt = "NVVM" THEN {"nvvm"}
          ELSE IF tgt = "GENX" THEN {"genx"} ELSE {})
FunctionTargetIllegal == {}

\* if (failed(applyPartialConversion(mod, funcTarget, funcPatterns)))
\*   return signalPassFailure();
FuncStageFailed ==
  \E n \in FuncNames : /\ funcs[n].matchFailed
                       /\ funcs[n].dialect \in FunctionTargetIllegal

FinishFuncStage ==
  /\ pc = "funcs"
  /\ PendingFuncs = {}
  /\ IF FuncStageFailed
     THEN /\ passFailed' = TRUE
          /\ pc' = "failed"
          /\ funcs' = saved.funcs
          /\ body' = saved.body
     ELSE /\ pc' = NextStatement("funcs")
          /\ UNCHANGED <<passFailed, funcs, body>>
  /\ saved' = <<>>
  /\ UNCHANGED <<target, computeCapability, modAttrs, globals, numWarps,
                 decomposed, tried, nextId, stages, input, tmaMetadata,
                 tmaMetaDataDebug, run>>

\* ------------------------------------------------------- initSharedMemory
SharedMemoryGlobalAlign8 ==
  [name |-> "global_smem", elemTy |-> <<"i8">>,
   arrayLen |-> 0, alignment |-> 8, addrSpace |-> 3,
   linkage |-> "external"]

\* the LLVM::GlobalOp "global_smem" (lines 557-562)
SharedMemoryGlobal ==
  [name |-> "global_smem", elemTy |-> convertType(<<"i8">>),
   arrayLen |-> 0, alignment |-> 16, addrSpace |-> 3,
   linkage |-> "external"]

initSharedMemory(gs, tgt) ==
  IF tgt \in {"NVVM", "ROCDL"} THEN Append(gs, SharedMemoryGlobal) ELSE gs

InitSharedMemory ==
  /\ pc = "initSharedMemory"
  /\ globals' = initSharedMemory(globals, target)
  /\ pc' = NextStatement("initSharedMemory")
  /\ stages' = Append(stages, "initSharedMemory")
  /\ saved' = [funcs |-> funcs, body |-> body]
  /\ UNCHANGED <<target, computeCapability, modAttrs, funcs, body, numWarps,
                 decomposed, passFailed, tried, nextId, input, tmaMetadata,
                 tmaMetaDataDebug, run>>

\* ------------------------------------------- CallOpConversion / ReturnOp
\* LLVM::getStackPointer(rewriter, caller, target): a kernel owns the base
\* of the shared-memory allocation, any other function reads its trailing
\* parameter
getStackPointer(caller, fn) ==
  IF fn.isKernel THEN <<"smem.global", caller, 0, 0>>
  ELSE Arg(caller, Len(fn.inputs) - 1)

\* LLVM::getSharedMemoryBase(loc, rewriter, callOp, target)
getSharedMemoryBase(callOp) == <<"smem.base", "", callOp.id, 0>>

promoteOperandsInverted(callOp, fs) ==
  LET caller == fs[callOp.func]
      promotedOperands == callOp.operands
  IN IF HasAttr(caller.attrs, "allocation.offset")
     THEN Append(promotedOperands, getStackPointer(callOp.func, caller))
     ELSE Append(promotedOperands, getSharedMemoryBase(callOp))

\* CallOpConversion::promoteOperands
promoteOperands(callOp, fs) ==
  LET caller == fs[callOp.func]
      promotedOperands == callOp.operands
  IN IF ~HasAttr(caller.attrs, "allocation.offset")
     THEN Append(promotedOperands, getStackPointer(callOp.func, caller))
     ELSE Append(promotedOperands, getSharedMemoryBase(callOp))

\* CallOpConversion::convertCallOpToLLVMCallOp; kind "null" when the result
\* types cannot be packed
convertCallOpToLLVMCallOp(callOp, promotedOperands, id, resultTypes) ==
  LET numResults == callOp.nres
      packedResult == IF numResults # 0 THEN packFunctionResults(resultTypes)
                      ELSE <<>>
  IN IF numResults # 0 /\ packedResult = <<>>
     THEN [callOp EXCEPT !.kind = "null"]
     ELSE [MkOp(id, "llvm.call", "llvm", callOp.func, promotedOperands,
                IF packedResult # <<>> THEN 1 ELSE 0)
             EXCEPT !.callee = callOp.callee, !.attrs = callOp.attrs]

\* CallOpConversion::getCallOpResults: the operations it creates
CallResultExtracts(callOp, newCallOp, id) ==
  IF callOp.nres < 2 THEN <<>>
  ELSE [i \in 1..callOp.nres |->
          [MkOp(id + i - 1, "llvm.extractvalue", "llvm", callOp.func,
                <<Res(newCallOp.id, 0)>>, 1) EXCEPT !.num = i - 1]]

\* CallOpConversion::getCallOpResults: the values that replace the results
getCallOpResults(callOp, newCallOp, id) ==
  IF callOp.nres < 2 THEN Results(newCallOp.id, newCallOp.nres)
  ELSE [i \in 1..callOp.nres |-> Res(id + i - 1, 0)]

\* rewriter.replaceOp(op, results): every use of result k reads results[k]
RECURSIVE ReplaceResults(_, _, _, _)
ReplaceResults(b, id, results, k) ==
  IF k > Len(results) THEN b
  ELSE ReplaceResults(ReplaceUses(b, Res(id, k - 1), results[k]), id,
                      results, k + 1)

PackedReturnReversed(op, id) ==
  IF Len(op.operands) < 2
  THEN << [MkOp(id, "llvm.return", "llvm", op.func, op.operands, 0)
             EXCEPT !.attrs = op.attrs] >>
  ELSE << MkOp(id, "llvm.undef", "llvm", op.func, <<>>, 1) >>
       \o [i \in 1..Len(op.operands) |->
             [MkOp(id + i, "llvm.insertvalue", "llvm", op.func,
                   <<Res(id + i - 1, 0), op.operands[i]>>, 1)
                EXCEPT !.num = Len(op.operands) - i]]
       \o << [MkOp(id + Len(op.operands) + 1, "llvm.return", "llvm",
                   op.func, <<Res(id + Len(op.operands), 0)>>, 0)
                EXCEPT !.attrs = op.attrs] >>

\* ReturnOpConversion::matchAndRewrite, device-function branch: the
\* operations that replace the return
PackedReturn(op, id) ==
  IF Len(op.operands) < 2
  THEN << [MkOp(id, "llvm.return", "llvm", op.func, op.operands, 0)
             EXCEPT !.attrs = op.attrs] >>
  ELSE << MkOp(id, "llvm.undef", "llvm", op.func, <<>>, 1) >>
       \o [i \in 1..Len(op.operands) |->
             [MkOp(id + i, "llvm.insertvalue", "llvm", op.func,
                   <<Res(id + i - 1, 0), op.operands[i]>>, 1)
                EXCEPT !.num = i - 1]]
       \o << [MkOp(id + Len(op.operands) + 1, "llvm.return", "llvm",
                   op.func, <<Res(id + Len(op.operands), 0)>>, 0)
                EXCEPT !.attrs = op.attrs] >>

\* the operation the conversion driver visits next: the first call or
\* return in walk order that no pattern has been tried on
PendingCallRet ==
  {i \in 1..Len(body) : /\ body[i].kind \in {"tt.call", "tt.return"}
                         /\ body[i].id \notin tried}

CallOpConversion ==
  /\ pc = "callret"
  /\ PendingCallRet # {}
  /\ LET i == First(PendingCallRet)
         callOp == body[i]
         promotedOperands == promoteOperands(callOp, funcs)
         newCallOp == convertCallOpToLLVMCallOp(
                        callOp, promotedOperands, nextId,
                        input.funcs[callOp.callee].results)
         extracts == CallResultExtracts(callOp, newCallOp, nextId + 1)
         results == getCallOpResults(callOp, newCallOp, nextId + 1)
     IN /\ callOp.kind = "tt.call"
        /\ IF newCallOp.kind = "null"
           THEN /\ tried' = tried \cup {callOp.id}
                /\ UNCHANGED <<body, nextId>>
           ELSE /\ body' = ReplaceResults(
                             ReplaceAt(body, i, <<newCallOp>> \o extracts),
                             callOp.id, results, 1)
                /\ nextId' = nextId + 1 + Len(extracts)
                /\ UNCHANGED tried
  /\ stages' = IF stages[Len(stages)] # "callret"
               THEN Append(stages, "callret") ELSE stages
  /\ UNCHANGED <<target, computeCapability, modAttrs, funcs, globals, pc,
                 numWarps, decomposed, passFailed, saved, input, tmaMetadata,
                 tmaMetaDataDebug, run>>

\* ReturnOpConversion::matchAndRewrite on a return whose function carries
\* "nvvm.kernel" and that has operands: notifyMatchFailure
ReturnOpMatchFailure ==
  /\ pc = "callret"
  /\ PendingCallRet # {}
  /\ LET op == body[First(PendingCallRet)]
         funcOp == funcs[op.func]
     IN /\ op.kind = "tt.return"
        /\ funcOp.kind = "llvm.func"
        /\ HasAttr(funcOp.attrs, "nvvm.kernel")
        /\ Len(op.operands) > 0
        /\ tried' = tried \cup {op.id}
  /\ stages' = IF stages[Len(stages)] # "callret"
               THEN Append(stages, "callret") ELSE stages
  /\ UNCHANGED <<target, computeCapability, modAttrs, funcs, body, globals,
                 pc, numWarps, decomposed, passFailed, saved, nextId, input, tmaMetadata,
                 tmaMetaDataDebug, run>>

\* ReturnOpConversion::matchAndRewrite, the returns it rewrites
ReturnOpConversion ==
  /\ pc = "callret"
  /\ PendingCallRet # {}
  /\ LET i == First(PendingCallRet)
         op == body[i]
         funcOp == funcs[op.func]
     IN /\ op.kind = "tt.return"
        /\ funcOp.kind = "llvm.func"
        /\ IF HasAttr(funcOp.attrs, "nvvm.kernel")
           THEN /\ Len(op.operands) = 0
                /\ body' = ReplaceAt(body, i,
                             << [MkOp(nextId, "llvm.return", "llvm",
                                      op.func, <<>>, 0)
                                   EXCEPT !.attrs = op.attrs] >>)
                /\ nextId' = nextId + 1
           ELSE LET new == PackedReturn(op, nextId)
                IN /\ body' = ReplaceAt(body, i, new)
                   /\ nextId' = nextId + Len(new)
  /\ stages' = IF stages[Len(stages)] # "callret"
               THEN Append(stages, "callret") ELSE stages
  /\ UNCHANGED <<target, computeCapability, modAttrs, funcs, globals, pc,
                 numWarps, decomposed, passFailed, tried, saved, input, tmaMetadata,
                 tmaMetaDataDebug, run>>

\* if (failed(applyPartialConversion(mod, funcTarget, funcPatterns)))
\*   return signalPassFailure();
CallRetStageFailed ==
  \E i \in 1..Len(body) : /\ body[i].id \in tried
                          /\ body[i].dialect \in FunctionTargetIllegal

FinishCallRetStage ==
  /\ pc = "callret"
  /\ PendingCallRet = {}
  /\ IF CallRetStageFailed
     THEN /\ passFailed' = TRUE
          /\ pc' = "failed"
          /\ body' = saved.body
     ELSE /\ pc' = NextStatement("callret")
          /\ UNCHANGED <<passFailed, body>>
  /\ saved' = <<>>
  /\ tried' = {}
  /\ UNCHANGED <<target, computeCapability, modAttrs, funcs, globals,
                 numWarps, decomposed, nextId, stages, input, tmaMetadata,
                 tmaMetaDataDebug, run>>

\* ------------------------------------------------------ main legalization
\* lines 453-525: axis analysis, pattern population
PopulatePatterns ==
  /\ pc = "populate"
  /\ pc' = NextStatement("populate")
  /\ saved' = [funcs |-> funcs, body |-> body]
  /\ tmaMetaDataDebug' = TRUE
  /\ tmaMetadata' = IF tmaMetadata = nullptr THEN LocalTable(run)
                                              ELSE tmaMetadata
  /\ UNCHANGED <<target, computeCapability, modAttrs, funcs, body, globals,
                 numWarps, decomposed, passFailed, tried, nextId, stages,
                 input, run>>

ConversionTargetIllegalNoTriton ==
  {"triton_gpu", "triton_nvidia_gpu", "gpu"}

\* TritonLLVMConversionTarget
ConversionTargetLegal(tgt) ==
  {"llvm", "builtin.unrealized_conversion_cast"}
    \cup (IF tgt = "NVVM" THEN {"nvvm", "nvgpu"}
          ELSE IF tgt = "GENX" THEN {"genx"} ELSE {})
ConversionTargetIllegal == {"tt", "triton_gpu", "triton_nvidia_gpu", "gpu"}

\* the result of a lowering rule of the registry on an operation
LoweredOp(op) == [op EXCEPT !.kind = "llvm.op", !.dialect = "llvm"]

\* the operation the conversion driver visits next
PendingLegalize ==
  {i \in 1..Len(body) :
     /\ body[i].dialect \notin ConversionTargetLegal(target)
     /\ body[i].id \notin tried}

\* a rule of the registry matches and rewrites the operation
LegalizeOp ==
  /\ pc = "legalize"
  /\ PendingLegalize # {}
  /\ LET i == First(PendingLegalize)
     IN /\ body[i].lowerable
        /\ body' = [body EXCEPT ![i] = LoweredOp(body[i])]
  /\ stages' = IF stages[Len(stages)] # "legalize"
               THEN Append(stages, "legalize") ELSE stages
  /\ UNCHANGED <<target, computeCapability, modAttrs, funcs, globals, pc,
                 numWarps, decomposed, passFailed, tried, saved, nextId,
                 input, tmaMetadata,
                 tmaMetaDataDebug, run>>

\* no rule converts the operation and its dialect was not marked illegal:
\* a partial conversion leaves it in place
LegalizeLeaveUnknown ==
  /\ pc = "legalize"
  /\ PendingLegalize # {}
  /\ LET i == First(PendingLegalize)
     IN /\ ~body[i].lowerable
        /\ body[i].dialect \notin ConversionTargetIllegal
        /\ tried' = tried \cup {body[i].id}
  /\ stages' = IF stages[Len(stages)] # "legalize"
               THEN Append(stages, "legalize") ELSE stages
  /\ UNCHANGED <<target, computeCapability, modAttrs, funcs, body, globals,
                 pc, numWarps, decomposed, passFailed, saved, nextId, input, tmaMetadata,
                 tmaMetaDataDebug, run>>

\* no rule converts an operation of an illegal dialect:
\* applyPartialConversion undoes its rewrites and fails, and the pass
\* returns signalPassFailure()
LegalizeFailure ==
  /\ pc = "legalize"
  /\ PendingLegalize # {}
  /\ LET i == First(PendingLegalize)
     IN /\ ~body[i].lowerable
        /\ body[i].dialect \in ConversionTargetIllegal
  /\ body' = saved.body
  /\ funcs' = saved.funcs
  /\ passFailed' = TRUE
  /\ pc' = "failed"
  /\ saved' = <<>>
  /\ tried' = {}
  /\ stages' = IF stages[Len(stages)] # "legalize"
               THEN Append(stages, "legalize") ELSE stages
  /\ tmaMetaDataDebug' = FALSE
  /\ UNCHANGED <<target, computeCapability, modAttrs, globals, numWarps,
                 decomposed, nextId, input, tmaMetadata, run>>

FinishLegalize ==
  /\ pc = "legalize"
  /\ PendingLegalize = {}
  /\ pc' = NextStatement("legalize")
  /\ saved' = <<>>
  /\ tried' = {}
  /\ stages' = IF stages[Len(stages)] # "legalize"
               THEN Append(stages, "legalize") ELSE stages
  /\ UNCHANGED <<target, computeCapability, modAttrs, funcs, body, globals,
                 numWarps, decomposed, passFailed, nextId, input, tmaMetadata,
                 tmaMetaDataDebug, run>>

\* ---------------------------------------------------- cluster-id folding
FoldClusterCTAIdKeepUses(b, i, nid) ==
  InsertBefore(b, i, <<MkOp(nid, "llvm.mlir.constant", "llvm", b[i].func,
                            <<>>, 1)>>)

\* the walk's callback: Value zero = createConstantI32(loc, b, 0);
\* id.replaceAllUsesWith(zero);
FoldClusterCTAId(b, i, nid) ==
  LET zero == [MkOp(nid, "llvm.mlir.constant", "llvm", b[i].func, <<>>, 1)
                 EXCEPT !.num = 0]
  IN ReplaceUses(InsertBefore(b, i, <<zero>>), Res(b[i].id, 0), Res(nid, 0))

\* mod.walk over ClusterCTAIdOp (lines 531-535)
RECURSIVE WalkClusterCTAId(_, _, _)
WalkClusterCTAId(b, i, nid) ==
  IF i > Len(b) THEN [body |-> b, nextId |-> nid]
  ELSE IF b[i].kind = "nvgpu.cluster_id"
  THEN WalkClusterCTAId(FoldClusterCTAId(b, i, nid), i + 2, nid + 1)
  ELSE WalkClusterCTAId(b, i + 1, nid)

\* if (numCTAs == 1) { ... }
FoldCTAId ==
  /\ pc = "fold"
  /\ modAttrs.numCTAs = 1
  /\ LET r == WalkClusterCTAId(body, 1, nextId)
     IN /\ body' = r.body
        /\ nextId' = r.nextId
  /\ pc' = NextStatement("fold")
  /\ stages' = Append(stages, "fold")
  /\ tmaMetaDataDebug' = FALSE
  /\ UNCHANGED <<target, computeCapability, modAttrs, funcs, globals,
                 numWarps, decomposed, passFailed, tried, saved, input, tmaMetadata, run>>

NoFoldCTAId ==
  /\ pc = "fold"
  /\ modAttrs.numCTAs # 1
  /\ pc' = NextStatement("fold")
  /\ tmaMetaDataDebug' = FALSE
  /\ UNCHANGED <<target, computeCapability, modAttrs, funcs, body, globals,
                 numWarps, decomposed, passFailed, tried, saved, nextId,
                 stages, input, tmaMetadata, run>>

\* ------------------------------------------------- runs of the instance
\* the member points at a local table whose lifetime has ended
Dangling ==
  /\ tmaMetadata[1] = "local"
  /\ ~(tmaMetadata[2] = run /\ tmaMetaDataDebug)

\* the pass manager runs the same pass instance on the next module; the
\* members of the instance keep their values
StartNextRun ==
  /\ pc \in {"done", "failed"}
  /\ run < MaxRuns
  /\ run' = run + 1
  /\ funcs' = input.funcs
  /\ body' = input.body
  /\ globals' = <<>>
  /\ pc' = "start"
  /\ numWarps' = 0
  /\ decomposed' = FALSE
  /\ passFailed' = FALSE
  /\ tried' = {}
  /\ saved' = <<>>
  /\ stages' = <<>>
  /\ nextId' = MaxOpId(input.body) + 1
  /\ UNCHANGED <<target, computeCapability, modAttrs, input, tmaMetadata,
                 tmaMetaDataDebug>>

\* a rule of the registry writes its entry through a dangling tmaMetadata:
\* besides going on as LegalizeOp does, the access can end the process
LegalizeDanglingTable ==
  /\ pc = "legalize"
  /\ PendingLegalize # {}
  /\ LET i == First(PendingLegalize)
     IN /\ body[i].lowerable
        /\ body[i].kind = "triton_nvidia_gpu.insert_slice_tma"
  /\ Dangling
  /\ pc' = "crashed"
  /\ tmaMetaDataDebug' = FALSE
  /\ UNCHANGED <<target, computeCapability, modAttrs, funcs, body, globals,
                 numWarps, decomposed, passFailed, tried, saved, nextId,
                 stages, input, tmaMetadata, run>>

\* ------------------------------------------------------------ properties
OpsOf(b, kind) == {op \in Range(b) : op.kind = kind}
OpById(b, id) == CHOOSE op \in Range(b) : op.id = id
HasOp(b, id) == \E op \in Range(b) : op.id = id
Ran(stage) == stage \in Range(stages)

\* the function-lowering stage has finished
FuncStageDone == Ran("funcs") /\ pc # "funcs"
\* the call and return lowering has finished
CallRetStageDone == Ran("callret") /\ pc # "callret"

\* the parameter / result types of a lowered function, one per original one
LoweredResultTys(fn) ==
  IF fn.results = <<>> THEN <<>>
  ELSE IF fn.results[1][1] = "!llvm.struct"
       THEN [i \in 1..(Len(fn.results[1]) - 1) |-> <<fn.results[1][i + 1]>>]
       ELSE fn.results

\* C1: after the function-lowering stage a non-entry function has its
\* original parameters, in order, followed by one shared-memory pointer
\* parameter, and its original result types in order; an entry function has
\* exactly its original parameters.
C1_SignatureLowering ==
  FuncStageDone =>
    \A n \in FuncNames :
      LET o == input.funcs[n]
          l == funcs[n]
      IN /\ l.kind = "llvm.func"
         /\ IF o.isKernel
            THEN Len(l.inputs) = Len(o.inputs)
            ELSE /\ Len(l.inputs) = Len(o.inputs) + 1
                 /\ l.inputs[Len(l.inputs)] = <<"!llvm.ptr<3>">>
         /\ \A i \in 1..Len(o.inputs) : l.inputs[i] = convertType(o.inputs[i])
         /\ LoweredResultTys(l) =
              [i \in 1..Len(o.results) |-> convertType(o.results[i])]

C1_Witness ==
  /\ FuncStageDone
  /\ Len(input.funcs["f"].inputs) = 2
  /\ Len(funcs["f"].inputs) = 3
  /\ Len(input.funcs["f"].results) = 2
  /\ Len(input.funcs["kernel"].inputs) = 2
  /\ Len(funcs["kernel"].inputs) = 2

\* the original call of a lowered call: the call of the input module in the
\* same function
OriginalCall(newCallOp) ==
  CHOOSE o \in OpsOf(input.body, "tt.call") : o.func = newCallOp.func

RECURSIVE AggFields(_, _, _)
AggFields(b, v, n) ==
  LET op == OpById(b, v[3])
  IN IF op.kind = "llvm.insertvalue"
     THEN [AggFields(b, op.operands[1], n) EXCEPT ![op.num + 1] =
             op.operands[2]]
     ELSE [i \in 1..n |-> NoVal]

\* the value a function returns
ReturnedValue(b, f) ==
  (CHOOSE r \in OpsOf(b, "llvm.return") : r.func = f).operands[1]

\* what a value read at a call site holds: an llvm.extractvalue of a call
\* result reads that field of the aggregate the callee returns
ValueAtCallSite(b, v, n) ==
  LET ex == OpById(b, v[3])
      call == OpById(b, ex.operands[1][3])
  IN AggFields(b, ReturnedValue(b, call.callee), n)[ex.num + 1]

\* the operation of the input module that reads the results of the call to
\* callee, and that call
UserOfCall(callee) == IF callee = "f" THEN 9 ELSE 13
CallTo(b, callee) ==
  CHOOSE c \in Range(b) : c.kind \in {"tt.call", "llvm.call"}
                            /\ c.callee = callee

\* C3: for a non-entry function with N >= 2 results the lowered return
\* yields one aggregate whose field i is the i-th returned value, and the
\* call site reads N extractions at indices 0..N-1 in order, so that result
\* i at the call site is return operand i; for N <= 1 neither an aggregate
\* nor an extraction is created.
C3_ReturnPacking ==
  CallRetStageDone =>
    \A f \in {"f", "g"} :
      LET N == Len(input.funcs[f].results)
          orig == (CHOOSE r \in OpsOf(input.body, "tt.return") :
                     r.func = f).operands
          rets == {r \in OpsOf(body, "llvm.return") : r.func = f}
          call == CallTo(body, f)
          user == OpById(body, UserOfCall(f))
          extracts == {e \in OpsOf(body, "llvm.extractvalue") :
                         e.operands[1] = Res(call.id, 0)}
          packing == {o \in Range(body) :
                        /\ o.func = f
                        /\ o.kind \in {"llvm.undef", "llvm.insertvalue"}}
      IN /\ Cardinality(rets) = 1
         /\ call.kind = "llvm.call"
         /\ Len(user.operands) = N
         /\ IF N >= 2
            THEN /\ \A r \in rets :
                      /\ Len(r.operands) = 1
                      /\ AggFields(body, r.operands[1], N) = orig
                 /\ call.nres = 1
                 /\ Cardinality(extracts) = N
                 /\ \A i \in 1..N :
                      LET e == OpById(body, user.operands[i][3])
                      IN /\ user.operands[i][1] = "res"
                         /\ e \in extracts
                         /\ e.num = i - 1
                         /\ ValueAtCallSite(body, user.operands[i], N)
                              = orig[i]
            ELSE /\ \A r \in rets : r.operands = orig
                 /\ packing = {}
                 /\ extracts = {}
                 /\ call.nres = N
                 /\ user.operands = Results(call.id, N)

C3_Witness ==
  /\ CallRetStageDone
  /\ Len(input.funcs["f"].results) = 2
  /\ Len(input.funcs["g"].results) = 1
  /\ Cardinality({e \in OpsOf(body, "llvm.extractvalue") :
                    e.func = "kernel"}) = 2
  /\ Cardinality({o \in OpsOf(body, "llvm.insertvalue") : o.func = "f"}) = 2
  /\ ValueAtCallSite(body, OpById(body, 9).operands[2], 2) = Sym("f", 101)

\* the return of the entry function, as handed to the pass
KernelReturn ==
  CHOOSE r \in OpsOf(input.body, "tt.return") : r.func = "kernel"

\* C4 (as claimed): for every target variant, a module whose entry
\* function returns >= 1 operand never completes the pipeline, and no
\* lowered return is ever emitted for that kernel.
C4_KernelReturnFails ==
  Len(KernelReturn.operands) >= 1 =>
    /\ pc # "done"
    /\ \A r \in OpsOf(body, "llvm.return") : r.func # "kernel"

\* the decomposition stage has finished and the main legalization has not
\* yet rewritten its operations
AfterDecompose == Ran("decompose") /\ ~Ran("legalize")
                    /\ pc \notin {"decompose.commit", "decompose.wait"}

\* C5: after the decomposition stage, if at least one async copy was
\* decomposed, every async-wait marker left in the module, in any function,
\* waits for all groups (count 0).
C5_ConservativeWait ==
  (AfterDecompose /\ decomposed) =>
    \A w \in OpsOf(body, "triton_gpu.async_wait") : w.num = 0

C5_Witness ==
  /\ AfterDecompose
  /\ decomposed
  /\ \E w \in OpsOf(input.body, "triton_gpu.async_wait") :
       w.func = "kernel" /\ w.num = 2
  /\ \E w \in OpsOf(input.body, "triton_gpu.async_wait") :
       w.func = "f" /\ w.num = 2
  /\ \E w \in OpsOf(body, "triton_gpu.async_wait") :
       w.func = "kernel" /\ w.num = 0
  /\ \E w \in OpsOf(body, "triton_gpu.async_wait") :
       w.func = "f" /\ w.num = 0

\* --------------------------------------------------- tiles and their data
\* coordinates of a tile of the given shape
Coords(shape) ==
  {c \in [1..Len(shape) -> 0..2] : \A i \in 1..Len(shape) : c[i] < shape[i]}
\* a coordinate without the dimensions marked in drop
DropDims(c, drop) ==
  LET keep == SelectSeq([i \in 1..Len(c) |-> i], LAMBDA i : i \notin drop)
  IN [k \in 1..Len(keep) |-> c[keep[k]]]

\* the element the source pointer tile addresses, the element of the
\* destination tile, the fill value and the value of a masked-off element
\* read without fill value
SrcData(sc) == 100 + sc[1]
DstData(c) == 10 * c[1] + c[2]
OtherData(sc) == 900 + sc[1]
Undefined == 0 - 1
MaskAt(mask, sc) ==
  IF mask = "none" THEN TRUE
  ELSE IF mask = "alt" THEN sc[1] % 2 = 0
  ELSE FALSE

\* triton::LoadOp: a masked-off element reads the fill value
EvalLoad(mask, other, sc) ==
  IF MaskAt(mask, sc) THEN SrcData(sc)
  ELSE IF other THEN OtherData(sc) ELSE Undefined

\* tensor::InsertSliceOp with a rank-reduced source: the unit dimensions of
\* the slice that the source does not have are dropped
EvalInsertSlice(loadOp, sliceOp, c) ==
  LET a == sliceOp.aux
      inSlice == \A i \in 1..Len(c) :
                   /\ c[i] >= a.offsets[i]
                   /\ c[i] < a.offsets[i] + a.sizes[i] * a.strides[i]
                   /\ (c[i] - a.offsets[i]) % a.strides[i] = 0
      rel == [i \in 1..Len(c) |-> (c[i] - a.offsets[i]) \div a.strides[i]]
      dropped == {i \in 1..Len(c) : a.sizes[i] = 1 /\ DstShape[i] # 1}
  IN IF inSlice
     THEN EvalLoad(loadOp.aux.mask, loadOp.aux.other, DropDims(rel, dropped))
     ELSE DstData(c)

\* triton::gpu::InsertSliceAsyncOp: the source tile, masked and filled, is
\* written into the destination at index along axis
EvalInsertSliceAsync(op, c) ==
  IF c[op.aux.axis + 1] = op.aux.index
  THEN EvalLoad(op.aux.mask, op.aux.other, DropDims(c, {op.aux.axis + 1}))
  ELSE DstData(c)

\* the async copies of the input module that the stage decomposes
DecomposedCopies ==
  {a \in OpsOf(input.body, "triton_gpu.insert_slice_async") :
     target = "GENX" /\ ShouldDecompose(a, computeCapability)}

\* C6: a decomposed async copy is replaced by a load of the source with the
\* same mask and fill value followed by a slice-insert into the destination
\* at offset index along the axis and offset 0 / full extent along the
\* other axes; the uses of the original read the insert's result, the
\* original is erased and the destination tile is the one the async copy
\* produces.
C6_DecompositionEquivalence ==
  AfterDecompose =>
    \A a \in DecomposedCopies :
      /\ ~HasOp(body, a.id)
      /\ \E i \in 1..(Len(body) - 1) :
           LET ld == body[i]
               ins == body[i + 1]
           IN /\ ld.kind = "tt.load"
              /\ ld.operands = <<a.operands[1]>>
              /\ ld.aux.mask = a.aux.mask
              /\ ld.aux.other = a.aux.other
              /\ ins.kind = "tensor.insert_slice"
              /\ ins.operands = <<Res(ld.id, 0), a.operands[2]>>
              /\ \A d \in 1..Len(DstShape) :
                   IF d = a.aux.axis + 1
                   THEN ins.aux.offsets[d] = a.aux.index
                   ELSE /\ ins.aux.offsets[d] = 0
                        /\ ins.aux.sizes[d] = DstShape[d]
              /\ \A u \in Range(input.body) : \A k \in 1..Len(u.operands) :
                   u.operands[k] = Res(a.id, 0) =>
                     OpById(body, u.id).operands[k] = Res(ins.id, 0)
              /\ \A c \in Coords(DstShape) :
                   EvalInsertSliceAsync(a, c) # Undefined =>
                     EvalInsertSlice(ld, ins, c) = EvalInsertSliceAsync(a, c)

C6_Witness ==
  /\ AfterDecompose
  /\ \E a \in DecomposedCopies :
       /\ a.aux.axis = 1
       /\ a.aux.index = 2
       /\ a.aux.mask = "alt"
       /\ a.aux.other
  /\ \E ins \in OpsOf(body, "tensor.insert_slice") :
       /\ ins.aux.offsets = <<0, 2>>
       /\ OpById(body, 4).operands = <<Res(ins.id, 0)>>

\* the dialects of the operations and functions of the module
ModuleDialects ==
  {op.dialect : op \in Range(body)} \cup {funcs[n].dialect : n \in FuncNames}

SharedMemoryGlobals ==
  {i \in 1..Len(globals) : /\ globals[i].addrSpace = 3
                           /\ globals[i].arrayLen = 0
                           /\ globals[i].alignment = 16}

\* C8 (as claimed): for every target variant a module produced by a
\* successful run contains exactly one shared-memory global of array
\* length 0 and alignment 16.
C8_SharedMemoryGlobalEveryTarget ==
  (pc = "done" /\ ~passFailed) =>
    /\ Cardinality(SharedMemoryGlobals) = 1
    /\ Len(globals) = 1

\* C8 (amended): for the NVVM and ROCDL targets a run adds exactly one
\* shared-memory global, of array length 0 and alignment 16, before the
\* calls and returns are lowered; for the GENX target it adds no global.
C8_SharedMemoryGlobal ==
  IF Ran("initSharedMemory") /\ target \in {"NVVM", "ROCDL"}
  THEN /\ Len(globals) = 1
       /\ Cardinality(SharedMemoryGlobals) = 1
       /\ globals[1].name = "global_smem"
  ELSE globals = <<>>

C8_Witness ==
  /\ pc = "done"
  /\ ~passFailed
  /\ target = "ROCDL"
  /\ Cardinality(SharedMemoryGlobals) = 1

\* the maximum-threads-per-block attribute of a lowered function
MaxThreadsPerBlock(fn) ==
  IF HasAttr(fn.attrs, "nvvm.maxntid") THEN GetAttr(fn.attrs, "nvvm.maxntid")[1]
  ELSE GetAttr(fn.attrs, "genx.max_work_group_size")[1]

\* C9 (as claimed): for every target variant the maximum-threads-per-block
\* attribute of a lowered entry function is threads-per-warp times the
\* effective warp count (the warp count times the warp-groups attribute
\* when that is present).
C9_ThreadCount ==
  FuncStageDone =>
    \A n \in FuncNames :
      funcs[n].isKernel =>
        MaxThreadsPerBlock(funcs[n]) =
          modAttrs.threadsPerWarp
            * (IF modAttrs.numWarpGroups # 0
               THEN modAttrs.numWarps * modAttrs.numWarpGroups
               ELSE modAttrs.numWarps)

\* C10: when the CTA count is 1 and the main legalization succeeded, no
\* operation reads the result of a cluster-id operation and every former
\* use reads the constant 0; when the CTA count is not 1 every use of a
\* cluster id is as the main legalization left it.
C10_ClusterIdFolding ==
  pc = "done" =>
    \A cid \in OpsOf(body, "nvgpu.cluster_id") :
      IF modAttrs.numCTAs = 1
      THEN /\ \A u \in Range(body) : Res(cid.id, 0) \notin Range(u.operands)
           /\ \A u \in Range(input.body) : \A k \in 1..Len(u.operands) :
                u.operands[k] = Res(cid.id, 0) =>
                  LET v == OpById(body, u.id).operands[k]
                  IN /\ v[1] = "res"
                     /\ OpById(body, v[3]).kind = "llvm.mlir.constant"
                     /\ OpById(body, v[3]).num = 0
      ELSE \A u \in Range(input.body) : \A k \in 1..Len(u.operands) :
             u.operands[k] = Res(cid.id, 0) =>
               OpById(body, u.id).operands[k] = Res(cid.id, 0)

C10_Witness ==
  /\ pc = "done"
  /\ modAttrs.numCTAs = 1
  /\ target = "GENX"
  /\ OpsOf(body, "nvgpu.cluster_id") # {}
  /\ \E z \in OpsOf(body, "llvm.mlir.constant") :
       OpById(body, 2).operands = <<Res(z.id, 0)>>

\* the warp-specialization attributes of an attribute list
WSAttrsOf(attrs) ==
  {a \in attrs : a[1] = "async_agent" \/ a[1] = "agent.mutex_role"}

\* C11: the load and the slice-insert that replace a decomposed async copy
\* carry every warp-specialization attribute of the original (async_agent
\* and the mutex role, "agent.mutex_role") with the same value, and a
\* wait-for-all marker that replaces a wait carries the warp-specialization
\* attributes of the wait it replaces.
C11_WSAttrsPreserved ==
  AfterDecompose =>
    /\ \A a \in DecomposedCopies :
         \A o \in Range(body) :
           (\/ (o.kind = "tt.load" /\ o.operands = <<a.operands[1]>>)
            \/ (o.kind = "tensor.insert_slice"
                  /\ o.operands[2] = a.operands[2])) =>
             WSAttrsOf(a.attrs) \subseteq o.attrs
    /\ decomposed =>
         \A w \in OpsOf(input.body, "triton_gpu.async_wait") :
           \A n \in OpsOf(body, "triton_gpu.async_wait") :
             n.func = w.func => WSAttrsOf(w.attrs) \subseteq n.attrs

C11_Witness ==
  /\ AfterDecompose
  /\ decomposed
  /\ \E a \in DecomposedCopies :
       /\ <<"async_agent", <<1>>>> \in a.attrs
       /\ <<"agent.mutex_role", <<0>>>> \in a.attrs
  /\ \E o \in OpsOf(body, "tt.load") : Cardinality(o.attrs) = 2
  /\ \E o \in OpsOf(body, "tensor.insert_slice") : Cardinality(o.attrs) = 2
  /\ \E n \in OpsOf(body, "triton_gpu.async_wait") :
       /\ n.num = 0
       /\ n.id # 6
       /\ <<"agent.mutex_role", <<0>>>> \in n.attrs

\* the async copies of the input module that are no longer in the module
ErasedCopies ==
  {a \in OpsOf(input.body, "triton_gpu.insert_slice_async") :
     ~HasOp(body, a.id)}

\* the byte widths the capability level loads natively
NativeByteWidths == IF computeCapability >= 80 THEN {4, 8, 16} ELSE {}

ClaimedOrder ==
  <<"decompose", "allocation", "membar", "tensorPtrMap", "funcs",
    "initSharedMemory", "callret", "legalize", "fold">>

IsPrefix(s, t) == Len(s) <= Len(t) /\ s = SubSeq(t, 1, Len(s))

\* C14: in every run the stages executed so far are, in this order and each
\* at most once: async-copy decomposition, shared-memory allocation,
\* barrier insertion, tensor-pointer map scan, function-signature rewrite,
\* shared-memory global declaration, call and return lowering, main
\* legalization, cluster-id folding.
C14_StageOrdering ==
  IsPrefix(SelectSeq(stages, LAMBDA x : x \in Range(ClaimedOrder)),
           ClaimedOrder)

C14_Witness ==
  /\ pc = "done"
  /\ SelectSeq(stages, LAMBDA x : x \in Range(ClaimedOrder)) = ClaimedOrder

\* the async markers of a module
Markers(b) ==
  {op \in Range(b) : op.kind \in {"triton_gpu.async_commit_group",
                                   "triton_gpu.async_wait"}}

\* C15 (as claimed): after the decomposition stage no commit-group marker
\* and no wait marker remains when the capability level does not support
\* them, and without decomposition the supported markers are unchanged.
C15_MarkerErasureEveryTarget ==
  AfterDecompose =>
    IF computeCapability < 80 THEN Markers(body) = {}
    ELSE ~decomposed => Markers(body) = Markers(input.body)

\* C15 (amended): on the GENX target, after the decomposition stage no
\* commit-group marker remains if the capability level does not support
\* async commit groups and no wait marker remains if it does not support
\* async wait; when the marker kind is supported and no decomposition
\* occurred every such marker is left unchanged.  On every other target
\* all markers are left unchanged.
C15_MarkerErasure ==
  AfterDecompose =>
    IF target = "GENX"
    THEN IF computeCapability < 80 THEN Markers(body) = {}
         ELSE ~decomposed => Markers(body) = Markers(input.body)
    ELSE Markers(body) = Markers(input.body)

C15_Witness ==
  /\ AfterDecompose
  /\ target = "GENX"
  /\ computeCapability = 70
  /\ OpsOf(input.body, "triton_gpu.async_commit_group") # {}
  /\ OpsOf(input.body, "triton_gpu.async_wait") # {}
  /\ Markers(body) = {}

\* C13 (as claimed): once a stage has signalled failure no later stage
\* executes and the module is not mutated further.
C13_AbortOnFailure ==
  [][passFailed => /\ funcs' = funcs
                   /\ body' = body
                   /\ globals' = globals
                   /\ stages' = stages]_vars

\* C16 (as claimed): a pass instance created without a metadata table
\* refers to an internally scoped table only while that table is the
\* live table of the current run, and every run uses such a table.
C16_TableLifetime ==
  tmaMetadata # ExternalTable =>
    /\ tmaMetadata[1] = "local" =>
         tmaMetadata[2] = run /\ tmaMetaDataDebug
    /\ pc \in {"legalize", "fold"} =>
         tmaMetadata = LocalTable(run) /\ tmaMetaDataDebug

\* ------------------------------------------------------------------ spec
Next ==
  \/ ReadModuleAttrs
  \/ DecomposeNotGENX
  \/ DecomposeInsertSliceAsync
  \/ DecomposeAsyncCommitGroup
  \/ DecomposeAsyncWait
  \/ Allocation
  \/ Membar
  \/ TensorPtrMapScan
  \/ Cleanup
  \/ CleanupFailed
  \/ \E n \in FuncNames : FuncOpConversion(n)
  \/ FinishFuncStage
  \/ InitSharedMemory
  \/ CallOpConversion
  \/ ReturnOpMatchFailure
  \/ ReturnOpConversion
  \/ FinishCallRetStage
  \/ PopulatePatterns
  \/ LegalizeOp
  \/ LegalizeLeaveUnknown
  \/ LegalizeFailure
  \/ FinishLegalize
  \/ FoldCTAId
  \/ NoFoldCTAId

Spec == Init /\ [][Next]_vars

\* several runs of one pass instance
NextRuns ==
  \/ Next
  \/ StartNextRun
  \/ LegalizeDanglingTable

SpecRuns == Init /\ [][NextRuns]_vars
====
